---- MODULE Spec2Model ----
(***************************************************************************)
(* Verification model of the portfolio / pie / slice backend.              *)
(*                                                                         *)
(* The committed data store is the four variables portfolios, pies,        *)
(* slices and nextId.  Every request runs on its own session: a pair       *)
(* [c, w] of the committed store and the session's working copy; flush     *)
(* writes to w, commit copies w to c, rollback discards w.                 *)
(* Percentages are Numeric(5,2) values; the model uses whole percents.     *)
(* Optional request fields are sets with at most one element: None = {}.   *)
(* Of the free-text columns (name, description, color, icon, notes) only   *)
(* name is kept: the others are written by the same "if x is not None"     *)
(* assignments and are read by no guard.                                   *)
(***************************************************************************)
EXTENDS Integers, Sequences, FiniteSets, TLC

VARIABLES portfolios, pies, slices, nextId, req, resp, sess, calls

vars == <<portfolios, pies, slices, nextId, req, resp, sess, calls>>

store == <<portfolios, pies, slices, nextId>>

(***************************************************************************)
(* Bounds and input sets                                                   *)
(***************************************************************************)
AllocMaxRows == 3

OrderMaxRows == 3

MaxReorderLen == 3

UserId(n) == <<"user", n>>

U1 == UserId(1)

U2 == UserId(2)

Users == {U1, U2}

DefaultName == "Default Portfolio"

None == {}

Some(v) == {v}

Val(o) == CHOOSE v \in o : TRUE

Opt(S) == {None} \cup {Some(v) : v \in S}

\* the value an "if x is not None" assignment leaves in a field
Supplied(field, old) == IF field = None THEN old ELSE Val(field)

PortfolioId(n) == <<"portfolio", n>>

PieId(n) == <<"pie", n>>

SliceId(n) == <<"slice", n>>

NoId == <<"none", 0>>

(***************************************************************************)
(* str.upper() on the ticker symbols the requests use                      *)
(***************************************************************************)
Upper(sym) ==
    CASE sym = "aapl" -> "AAPL"
      [] sym = "msft" -> "MSFT"
      [] OTHER -> sym

\* str.lower() on the portfolio names of the model
Lower(name) ==
    CASE name = "Default Portfolio" -> "default portfolio"
      [] name = "Growth" -> "growth"
      [] OTHER -> name

(***************************************************************************)
(* Sessions                                                                *)
(***************************************************************************)
Db == [portfolios |-> portfolios, pies |-> pies, slices |-> slices, nextId |-> nextId]

NewSession(db) == [c |-> db, w |-> db]

Commit(s) == [s EXCEPT !.c = s.w]

Rollback(s) == [s EXCEPT !.w = s.c]

NoDetail == [current |-> None, attempted |-> None, total |-> None]

Out(s, status, reason, detail) ==
    [s |-> s, status |-> status, reason |-> reason, detail |-> detail]

\* Database.get_session: commit when the handler returns, rollback when it raises
GetSession(out) ==
    IF out.status >= 400 THEN Rollback(out.s) ELSE Commit(out.s)

RECURSIVE SumOf(_, _)
SumOf(S, field) ==
    IF S = {} THEN 0
    ELSE LET x == CHOOSE y \in S : TRUE
         IN  x[field] + SumOf(S \ {x}, field)

MaxOf(S) == CHOOSE m \in S : \A n \in S : n <= m

(***************************************************************************)
(* PortfolioService and the default-portfolio resolver                     *)
(***************************************************************************)
get_user_portfolios(w, user_id) == {p \in w.portfolios : p.user_id = user_id}

\* PortfolioService.create_portfolio: add, then session.commit()
create_portfolio(s, user_id, name) ==
    LET id == PortfolioId(s.w.nextId.portfolio)
        row == [id |-> id, user_id |-> user_id, name |-> name]
        w2 == [s.w EXCEPT !.portfolios = @ \cup {row},
                          !.nextId.portfolio = @ + 1]
    IN  [s |-> Commit([s EXCEPT !.w = w2]), id |-> id]

\* every resolution inserts a row
get_user_default_portfolio_AlwaysCreates(s, user_id) ==
    {create_portfolio(s, user_id, DefaultName)}

\* The set of possible results [s, id]: the query orders by name only, so
\* with several rows named "Default Portfolio" any of them may come first.
get_user_default_portfolio(s, user_id) ==
    LET defaults == {p \in get_user_portfolios(s.w, user_id) : p.name = DefaultName}
    IN  IF defaults # {}
        THEN {[s |-> s, id |-> p.id] : p \in defaults}
        ELSE {create_portfolio(s, user_id, DefaultName)}

\* an explicit portfolio_id is taken without the ownership check
resolve_portfolio_Unchecked(s, user_id, portfolio_id) ==
    IF portfolio_id # None
    THEN {[s |-> s, id |-> Val(portfolio_id), forbidden |-> FALSE]}
    ELSE {[s |-> r.s, id |-> r.id, forbidden |-> FALSE] :
             r \in get_user_default_portfolio(s, user_id)}

\* create_pie / update_pie / get_pies: explicit portfolio_id with ownership
\* check, else the default portfolio.  Results carry forbidden = TRUE for 403.
resolve_portfolio(s, user_id, portfolio_id) ==
    IF portfolio_id # None
    THEN IF \E p \in get_user_portfolios(s.w, user_id) : p.id = Val(portfolio_id)
         THEN {[s |-> s, id |-> Val(portfolio_id), forbidden |-> FALSE]}
         ELSE {[s |-> s, id |-> NoId, forbidden |-> TRUE]}
    ELSE {[s |-> r.s, id |-> r.id, forbidden |-> FALSE] :
             r \in get_user_default_portfolio(s, user_id)}

(***************************************************************************)
(* PieService                                                              *)
(***************************************************************************)
\* select(Pie).where(Pie.id == pie_id), without the portfolio condition
PieService_get_by_id_AnyPortfolio(w, pie_id, portfolio_id) ==
    {p \in w.pies : p.id = pie_id}

PieService_get_by_id(w, pie_id, portfolio_id) ==
    {p \in w.pies : p.id = pie_id /\ p.portfolio_id = portfolio_id}

\* the is_active condition is added whatever include_inactive says
PieService_get_all_by_portfolio_AlwaysFilters(w, portfolio_id, include_inactive) ==
    {p \in w.pies : p.portfolio_id = portfolio_id /\ p.is_active}

PieService_get_all_by_portfolio(w, portfolio_id, include_inactive) ==
    {p \in w.pies : p.portfolio_id = portfolio_id /\ (include_inactive \/ p.is_active)}

PieService_get_total_allocation(w, portfolio_id) ==
    SumOf(PieService_get_all_by_portfolio(w, portfolio_id, FALSE), "target_allocation")

\* the row is stored without its portfolio
PieService_create_NoPortfolio(w, portfolio_id, name, target_allocation) ==
    LET row == [id |-> PieId(w.nextId.pie), portfolio_id |-> NoId,
                name |-> name, target_allocation |-> target_allocation,
                display_order |-> 1, is_active |-> TRUE]
    IN  [w EXCEPT !.pies = @ \cup {row}, !.nextId.pie = @ + 1]

PieService_create(w, portfolio_id, name, target_allocation) ==
    LET orders == {p.display_order : p \in {q \in w.pies : q.portfolio_id = portfolio_id}}
        max_order == IF orders = {} THEN 0 ELSE MaxOf(orders)
        row == [id |-> PieId(w.nextId.pie), portfolio_id |-> portfolio_id,
                name |-> name, target_allocation |-> target_allocation,
                display_order |-> max_order + 1, is_active |-> TRUE]
    IN  [w EXCEPT !.pies = @ \cup {row}, !.nextId.pie = @ + 1]

\* an absent is_active is written as True
PieService_update_OverwritesAbsent(w, pie_id, portfolio_id, name, target_allocation, is_active) ==
    LET found == PieService_get_by_id(w, pie_id, portfolio_id)
    IN  IF found = {} THEN [w |-> w, found |-> FALSE]
        ELSE LET pie == Val(found)
                 p1 == IF name # None THEN [pie EXCEPT !.name = Val(name)] ELSE pie
                 p2 == IF target_allocation # None
                       THEN [p1 EXCEPT !.target_allocation = Val(target_allocation)] ELSE p1
                 p3 == [p2 EXCEPT !.is_active = Supplied(is_active, TRUE)]
             IN  [w |-> [w EXCEPT !.pies = (@ \ {pie}) \cup {p3}], found |-> TRUE]

PieService_update(w, pie_id, portfolio_id, name, target_allocation, is_active) ==
    LET found == PieService_get_by_id(w, pie_id, portfolio_id)
    IN  IF found = {} THEN [w |-> w, found |-> FALSE]
        ELSE LET pie == Val(found)
                 p1 == IF name # None THEN [pie EXCEPT !.name = Val(name)] ELSE pie
                 p2 == IF target_allocation # None
                       THEN [p1 EXCEPT !.target_allocation = Val(target_allocation)] ELSE p1
                 p3 == IF is_active # None
                       THEN [p2 EXCEPT !.is_active = Val(is_active)] ELSE p2
             IN  [w |-> [w EXCEPT !.pies = (@ \ {pie}) \cup {p3}], found |-> TRUE]

\* DELETE FROM pies WHERE id AND portfolio_id; slices go by ON DELETE CASCADE
\* the slices of the deleted pie stay behind
PieService_delete_NoCascade(w, pie_id, portfolio_id) ==
    LET hit == PieService_get_by_id(w, pie_id, portfolio_id)
    IN  [w |-> [w EXCEPT !.pies = @ \ hit], deleted |-> hit # {}]

PieService_delete(w, pie_id, portfolio_id) ==
    LET hit == PieService_get_by_id(w, pie_id, portfolio_id)
    IN  [w |-> [w EXCEPT !.pies = @ \ hit,
                         !.slices = {sl \in @ : \A p \in hit : sl.pie_id # p.id}],
         deleted |-> hit # {}]

\* positions counted from 1
PieReorderOne_OneBased(w, portfolio_id, pie_id, index) ==
    [w EXCEPT !.pies = {IF p.id = pie_id /\ p.portfolio_id = portfolio_id
                        THEN [p EXCEPT !.display_order = index + 1] ELSE p : p \in @}]

\* one UPDATE ... WHERE id = pie_id AND portfolio_id = portfolio_id per index
PieReorderOne(w, portfolio_id, pie_id, index) ==
    [w EXCEPT !.pies = {IF p.id = pie_id /\ p.portfolio_id = portfolio_id
                        THEN [p EXCEPT !.display_order = index] ELSE p : p \in @}]

RECURSIVE PieReorderFrom(_, _, _, _)
PieReorderFrom(w, portfolio_id, pie_ids, i) ==
    IF i > Len(pie_ids) THEN w
    ELSE PieReorderFrom(PieReorderOne(w, portfolio_id, pie_ids[i], i - 1),
                        portfolio_id, pie_ids, i + 1)

\* only the first id of the list is given its index
PieService_reorder_FirstOnly(w, portfolio_id, pie_ids) ==
    PieReorderOne(w, portfolio_id, pie_ids[1], 0)

PieService_reorder(w, portfolio_id, pie_ids) ==
    PieReorderFrom(w, portfolio_id, pie_ids, 1)

(***************************************************************************)
(* SliceService                                                            *)
(***************************************************************************)
SliceService_verify_pie_ownership(w, pie_id, portfolio_id) ==
    \E p \in w.pies : p.id = pie_id /\ p.portfolio_id = portfolio_id

\* select(Slice).where(Slice.id == slice_id), without the join on Pie
SliceService_get_by_id_NoJoin(w, slice_id, portfolio_id) ==
    {sl \in w.slices : sl.id = slice_id}

\* select(Slice).join(Pie).where(Slice.id == slice_id, Pie.portfolio_id == portfolio_id)
SliceService_get_by_id(w, slice_id, portfolio_id) ==
    {sl \in w.slices : /\ sl.id = slice_id
                       /\ \E p \in w.pies : p.id = sl.pie_id /\ p.portfolio_id = portfolio_id}

SliceService_get_all_by_pie(w, pie_id, portfolio_id, include_inactive) ==
    IF ~SliceService_verify_pie_ownership(w, pie_id, portfolio_id) THEN {}
    ELSE {sl \in w.slices : sl.pie_id = pie_id /\ (include_inactive \/ sl.is_active)}

SliceService_get_total_weight_CountsInactive(w, pie_id) ==
    SumOf({sl \in w.slices : sl.pie_id = pie_id}, "target_weight")

SliceService_get_total_weight(w, pie_id) ==
    SumOf({sl \in w.slices : sl.pie_id = pie_id /\ sl.is_active}, "target_weight")

\* no constraint on (pie_id, symbol)
UqSlicePieSymbolViolated_Never(w, row) == FALSE

\* UniqueConstraint("pie_id", "symbol"): does the flush of row raise IntegrityError
UqSlicePieSymbolViolated(w, row) ==
    \E sl \in w.slices : sl.id # row.id /\ sl.pie_id = row.pie_id /\ sl.symbol = row.symbol

\* the max_order query and the Slice(...) object that create adds
\* the maximum is taken over the active slices of the pie only
SliceService_create_row_MaxOfActive(w, pie_id, symbol, target_weight, name) ==
    LET orders == {sl.display_order :
                      sl \in {x \in w.slices : x.pie_id = pie_id /\ x.is_active}}
        max_order == IF orders = {} THEN 0 ELSE MaxOf(orders)
    IN  [id |-> SliceId(w.nextId.slice), pie_id |-> pie_id,
         symbol |-> Upper(symbol), name |-> name,
         target_weight |-> target_weight,
         display_order |-> max_order + 1, is_active |-> TRUE]

SliceService_create_row(w, pie_id, symbol, target_weight, name) ==
    LET orders == {sl.display_order : sl \in {x \in w.slices : x.pie_id = pie_id}}
        max_order == IF orders = {} THEN 0 ELSE MaxOf(orders)
    IN  [id |-> SliceId(w.nextId.slice), pie_id |-> pie_id,
         symbol |-> Upper(symbol), name |-> name,
         target_weight |-> target_weight,
         display_order |-> max_order + 1, is_active |-> TRUE]

\* result: "none" (returns None), "value_error" (raises ValueError),
\* "integrity" (flush raises IntegrityError), "ok"
SliceService_create(w, pie_id, portfolio_id, symbol, target_weight, name) ==
    LET current_total == SliceService_get_total_weight(w, pie_id)
        row == SliceService_create_row(w, pie_id, symbol, target_weight, name)
    IN  IF ~SliceService_verify_pie_ownership(w, pie_id, portfolio_id)
        THEN [w |-> w, result |-> "none", detail |-> NoDetail]
        ELSE IF current_total + target_weight > 100
        THEN [w |-> w, result |-> "value_error",
              detail |-> [current |-> Some(current_total),
                          attempted |-> Some(target_weight),
                          total |-> Some(current_total + target_weight)]]
        ELSE IF UqSlicePieSymbolViolated(w, row)
        THEN [w |-> w, result |-> "integrity", detail |-> NoDetail]
        ELSE [w |-> [w EXCEPT !.slices = @ \cup {row}, !.nextId.slice = @ + 1],
              result |-> "ok", detail |-> NoDetail]

SliceService_update(w, slice_id, portfolio_id, symbol, name, target_weight, is_active) ==
    LET found == SliceService_get_by_id(w, slice_id, portfolio_id)
    IN  IF found = {} THEN [w |-> w, result |-> "none", detail |-> NoDetail]
        ELSE LET s == Val(found)
                 current_total == SliceService_get_total_weight(w, s.pie_id)
                 new_total == current_total - s.target_weight + Val(target_weight)
                 s1 == IF symbol # None THEN [s EXCEPT !.symbol = Upper(Val(symbol))] ELSE s
                 s2 == IF name # None THEN [s1 EXCEPT !.name = Val(name)] ELSE s1
                 s3 == IF target_weight # None
                       THEN [s2 EXCEPT !.target_weight = Val(target_weight)] ELSE s2
                 s4 == IF is_active # None
                       THEN [s3 EXCEPT !.is_active = Val(is_active)] ELSE s3
             IN  IF /\ target_weight # None
                    /\ Val(target_weight) # s.target_weight
                    /\ new_total > 100
                 THEN [w |-> w, result |-> "value_error",
                       detail |-> [current |-> None, attempted |-> None,
                                   total |-> Some(new_total)]]
                 ELSE IF UqSlicePieSymbolViolated(w, s4)
                 THEN [w |-> w, result |-> "integrity", detail |-> NoDetail]
                 ELSE [w |-> [w EXCEPT !.slices = (@ \ {s}) \cup {s4}],
                       result |-> "ok", detail |-> NoDetail]

SliceService_delete(w, slice_id, portfolio_id) ==
    LET found == SliceService_get_by_id(w, slice_id, portfolio_id)
    IN  IF found = {} THEN [w |-> w, deleted |-> FALSE]
        ELSE [w |-> [w EXCEPT !.slices = {sl \in @ : sl.id # slice_id}], deleted |-> TRUE]

\* UPDATE ... WHERE id = slice_id, without the pie_id condition
SliceReorderOne_AnyPie(w, pie_id, slice_id, index) ==
    [w EXCEPT !.slices = {IF sl.id = slice_id
                          THEN [sl EXCEPT !.display_order = index] ELSE sl : sl \in @}]

\* one UPDATE ... WHERE id = slice_id AND pie_id = pie_id per index
SliceReorderOne(w, pie_id, slice_id, index) ==
    [w EXCEPT !.slices = {IF sl.id = slice_id /\ sl.pie_id = pie_id
                          THEN [sl EXCEPT !.display_order = index] ELSE sl : sl \in @}]

RECURSIVE SliceReorderFrom(_, _, _, _)
SliceReorderFrom(w, pie_id, slice_ids, i) ==
    IF i > Len(slice_ids) THEN w
    ELSE SliceReorderFrom(SliceReorderOne(w, pie_id, slice_ids[i], i - 1),
                          pie_id, slice_ids, i + 1)

\* the ownership check left out
SliceService_reorder_Unverified(w, pie_id, portfolio_id, slice_ids) ==
    [w |-> SliceReorderFrom(w, pie_id, slice_ids, 1), success |-> TRUE]

SliceService_reorder(w, pie_id, portfolio_id, slice_ids) ==
    IF ~SliceService_verify_pie_ownership(w, pie_id, portfolio_id)
    THEN [w |-> w, success |-> FALSE]
    ELSE [w |-> SliceReorderFrom(w, pie_id, slice_ids, 1), success |-> TRUE]

(***************************************************************************)
(* Pie endpoints: the handler body, given the resolved portfolio r         *)
(***************************************************************************)
create_pie(r, data) ==
    LET current_total == PieService_get_total_allocation(r.s.w, r.id)
    IN  IF r.forbidden THEN Out(r.s, 403, "forbidden", NoDetail)
        ELSE IF current_total + data.target_allocation > 100
        THEN Out(r.s, 400, "allocation",
                 [current |-> Some(current_total),
                  attempted |-> Some(data.target_allocation),
                  total |-> None])
        ELSE Out([r.s EXCEPT !.w = PieService_create(@, r.id, data.name,
                                                     data.target_allocation)],
                 201, "ok", NoDetail)

\* the update is written and committed before the total is checked
update_pie_WritesBeforeGuard(r, pie_id, data) ==
    LET existing_pie == PieService_get_by_id(r.s.w, pie_id, r.id)
        current_total == PieService_get_total_allocation(r.s.w, r.id)
        new_total == current_total - Val(existing_pie).target_allocation
                         + Val(data.target_allocation)
        upd == PieService_update(r.s.w, pie_id, r.id, data.name,
                                 data.target_allocation, data.is_active)
    IN  IF r.forbidden THEN Out(r.s, 403, "forbidden", NoDetail)
        ELSE IF data.target_allocation # None /\ existing_pie = {}
        THEN Out(r.s, 404, "not_found", NoDetail)
        ELSE IF data.target_allocation # None /\ new_total > 100
        THEN Out(Commit([r.s EXCEPT !.w = upd.w]), 400, "allocation",
                 [current |-> None, attempted |-> None, total |-> Some(new_total)])
        ELSE IF ~upd.found THEN Out(r.s, 404, "not_found", NoDetail)
        ELSE Out([r.s EXCEPT !.w = upd.w], 200, "ok", NoDetail)

update_pie(r, pie_id, data) ==
    LET existing_pie == PieService_get_by_id(r.s.w, pie_id, r.id)
        current_total == PieService_get_total_allocation(r.s.w, r.id)
        new_total == current_total - Val(existing_pie).target_allocation
                         + Val(data.target_allocation)
        upd == PieService_update(r.s.w, pie_id, r.id, data.name,
                                 data.target_allocation, data.is_active)
    IN  IF r.forbidden THEN Out(r.s, 403, "forbidden", NoDetail)
        ELSE IF data.target_allocation # None /\ existing_pie = {}
        THEN Out(r.s, 404, "not_found", NoDetail)
        ELSE IF data.target_allocation # None /\ new_total > 100
        THEN Out(r.s, 400, "allocation",
                 [current |-> None, attempted |-> None, total |-> Some(new_total)])
        ELSE IF ~upd.found THEN Out(r.s, 404, "not_found", NoDetail)
        ELSE Out([r.s EXCEPT !.w = upd.w], 200, "ok", NoDetail)

\* result: the response and the pies listed in it
get_pies(r, include_inactive) ==
    IF r.forbidden THEN [out |-> Out(r.s, 403, "forbidden", NoDetail), rows |-> {}]
    ELSE [out |-> Out(r.s, 200, "ok", NoDetail),
          rows |-> PieService_get_all_by_portfolio(r.s.w, r.id, include_inactive)]

get_pie(r, pie_id) ==
    LET pie == PieService_get_by_id(r.s.w, pie_id, r.id)
    IN  IF pie = {} THEN [out |-> Out(r.s, 404, "not_found", NoDetail), rows |-> {}]
        ELSE [out |-> Out(r.s, 200, "ok", NoDetail), rows |-> pie]

delete_pie(r, pie_id) ==
    LET del == PieService_delete(r.s.w, pie_id, r.id)
    IN  IF ~del.deleted THEN Out(r.s, 404, "not_found", NoDetail)
        ELSE Out([r.s EXCEPT !.w = del.w], 204, "ok", NoDetail)

\* the indexes are written to the listed pies of every portfolio
reorder_pies_AnyPortfolio(r, ids) ==
    Out([r.s EXCEPT !.w.pies =
             {IF \E i \in DOMAIN ids : ids[i] = p.id
              THEN [p EXCEPT !.display_order =
                        (CHOOSE i \in DOMAIN ids : ids[i] = p.id) - 1]
              ELSE p : p \in @}],
        204, "ok", NoDetail)

reorder_pies(r, ids) ==
    Out([r.s EXCEPT !.w = PieService_reorder(@, r.id, ids)], 204, "ok", NoDetail)

(***************************************************************************)
(* Portfolio endpoints (api/portfolios.py).  The path parameter            *)
(* portfolio_id is parsed as uuid.UUID while Portfolio.id is a String(36)  *)
(* column holding str values.                                              *)
(***************************************************************************)
\* BaseService.get_by_id
PortfolioService_get_by_id(w, portfolio_id) == {p \in w.portfolios : p.id = portfolio_id}

\* PortfolioService.update_portfolio: setattr for the fields set, then commit
PortfolioService_update_portfolio(s, portfolio_id, name) ==
    LET found == PortfolioService_get_by_id(s.w, portfolio_id)
    IN  IF found = {} THEN [s |-> s, found |-> FALSE]
        ELSE LET p == Val(found)
                 p1 == IF name # None THEN [p EXCEPT !.name = Val(name)] ELSE p
             IN  [s |-> Commit([s EXCEPT !.w.portfolios = (@ \ {p}) \cup {p1}]),
                  found |-> TRUE]

\* PortfolioService.delete_portfolio: session.delete with the relationship
\* cascade "all, delete-orphan" over pies and their slices, then commit
PortfolioService_delete_portfolio(s, portfolio_id) ==
    LET found == PortfolioService_get_by_id(s.w, portfolio_id)
        gone == {p.id : p \in {q \in s.w.pies : q.portfolio_id = portfolio_id}}
    IN  IF found = {} THEN [s |-> s, deleted |-> FALSE]
        ELSE [s |-> Commit([s EXCEPT !.w.portfolios = @ \ found,
                                     !.w.pies = {p \in @ : p.portfolio_id # portfolio_id},
                                     !.w.slices = {sl \in @ : sl.pie_id \notin gone}]),
              deleted |-> TRUE]

\* result: the response and the id of the portfolio it describes
portfolios_create_portfolio(s, user_id, name) ==
    LET existing_portfolios == get_user_portfolios(s.w, user_id)
        created == create_portfolio(s, user_id, name)
    IN  IF \E p \in existing_portfolios : Lower(p.name) = Lower(name)
        THEN [out |-> Out(s, 400, "duplicate", NoDetail), id |-> NoId]
        ELSE [out |-> Out(created.s, 201, "ok", NoDetail), id |-> created.id]

\* In the duplicate check p.id is a str and portfolio_id a uuid.UUID: the
\* conjunct p.id != portfolio_id is true for every p, the renamed row included.
portfolios_update_portfolio(s, user_id, portfolio_id, name) ==
    LET found == PortfolioService_get_by_id(s.w, portfolio_id)
        existing_portfolios == get_user_portfolios(s.w, user_id)
        updated == PortfolioService_update_portfolio(s, portfolio_id, name)
    IN  IF found = {} \/ Val(found).user_id # user_id
        THEN Out(s, 404, "not_found", NoDetail)
        ELSE IF /\ name # None
                /\ Val(name) # Val(found).name
                /\ \E p \in existing_portfolios : Lower(p.name) = Lower(Val(name))
        THEN Out(s, 400, "duplicate", NoDetail)
        ELSE IF ~updated.found THEN Out(s, 404, "not_found", NoDetail)
        ELSE Out(updated.s, 200, "ok", NoDetail)

portfolios_delete_portfolio(s, user_id, portfolio_id) ==
    LET found == PortfolioService_get_by_id(s.w, portfolio_id)
        del == PortfolioService_delete_portfolio(s, portfolio_id)
    IN  IF found = {} \/ Val(found).user_id # user_id
        THEN Out(s, 404, "not_found", NoDetail)
        ELSE IF \E p \in s.w.pies : p.portfolio_id = portfolio_id
        THEN Out(s, 400, "has_pies", NoDetail)
        ELSE IF ~del.deleted THEN Out(s, 404, "not_found", NoDetail)
        ELSE Out(del.s, 204, "ok", NoDetail)

\* The statements of update_portfolio and delete_portfolio bind the uuid.UUID
\* path parameter against the String(36) column, and delete_portfolio reads
\* the unloaded relationship portfolio.pies on an AsyncSession: the driver
\* either accepts this or raises, which the client sees as 500.
DriverOutcomes(s, out) == {out, Out(s, 500, "internal", NoDetail)}

(***************************************************************************)
(* Slice endpoints: the handler body, given the default portfolio r        *)
(***************************************************************************)
\* SliceBase / SliceUpdate field_validator('symbol'): v.upper().strip()
uppercase_symbol(v) == Upper(v)

get_slices(r, pie_id, include_inactive) ==
    [out |-> Out(r.s, 200, "ok", NoDetail),
     rows |-> SliceService_get_all_by_pie(r.s.w, pie_id, r.id, include_inactive)]

get_slice(r, pie_id, slice_id) ==
    LET slice_obj == SliceService_get_by_id(r.s.w, slice_id, r.id)
    IN  IF slice_obj = {} \/ Val(slice_obj).pie_id # pie_id
        THEN [out |-> Out(r.s, 404, "not_found", NoDetail), rows |-> {}]
        ELSE [out |-> Out(r.s, 200, "ok", NoDetail), rows |-> slice_obj]

create_slice(r, pie_id, data) ==
    LET res == SliceService_create(r.s.w, pie_id, r.id, uppercase_symbol(data.symbol),
                                   data.target_weight, data.name)
    IN  CASE res.result = "value_error" -> Out(r.s, 400, "allocation", res.detail)
          [] res.result = "integrity" -> Out(r.s, 500, "integrity", NoDetail)
          [] res.result = "none" -> Out(r.s, 404, "not_found", NoDetail)
          [] OTHER -> Out([r.s EXCEPT !.w = res.w], 201, "ok", NoDetail)

\* the slice is not compared with the pie of the path
update_slice_AnyPie(r, pie_id, slice_id, data) ==
    LET existing == SliceService_get_by_id(r.s.w, slice_id, r.id)
        symbol == IF data.symbol = None THEN None
                  ELSE Some(uppercase_symbol(Val(data.symbol)))
        res == SliceService_update(r.s.w, slice_id, r.id, symbol, data.name,
                                   data.target_weight, data.is_active)
    IN  IF existing = {}
        THEN Out(r.s, 404, "not_found", NoDetail)
        ELSE CASE res.result = "value_error" -> Out(r.s, 400, "allocation", res.detail)
               [] res.result = "integrity" -> Out(r.s, 500, "integrity", NoDetail)
               [] res.result = "none" -> Out(r.s, 404, "not_found", NoDetail)
               [] OTHER -> Out([r.s EXCEPT !.w = res.w], 200, "ok", NoDetail)

update_slice(r, pie_id, slice_id, data) ==
    LET existing == SliceService_get_by_id(r.s.w, slice_id, r.id)
        symbol == IF data.symbol = None THEN None
                  ELSE Some(uppercase_symbol(Val(data.symbol)))
        res == SliceService_update(r.s.w, slice_id, r.id, symbol, data.name,
                                   data.target_weight, data.is_active)
    IN  IF existing = {} \/ Val(existing).pie_id # pie_id
        THEN Out(r.s, 404, "not_found", NoDetail)
        ELSE CASE res.result = "value_error" -> Out(r.s, 400, "allocation", res.detail)
               [] res.result = "integrity" -> Out(r.s, 500, "integrity", NoDetail)
               [] res.result = "none" -> Out(r.s, 404, "not_found", NoDetail)
               [] OTHER -> Out([r.s EXCEPT !.w = res.w], 200, "ok", NoDetail)

\* service.delete is called twice: with the portfolio id, then with the user id
delete_slice(r, user_id, pie_id, slice_id) ==
    LET existing == SliceService_get_by_id(r.s.w, slice_id, r.id)
        del1 == SliceService_delete(r.s.w, slice_id, r.id)
        del2 == SliceService_delete(del1.w, slice_id, user_id)
    IN  IF existing = {} \/ Val(existing).pie_id # pie_id
        THEN Out(r.s, 404, "not_found", NoDetail)
        ELSE IF ~del1.deleted THEN Out(r.s, 404, "not_found", NoDetail)
        ELSE IF ~del2.deleted
        THEN Out([r.s EXCEPT !.w = del1.w], 404, "not_found", NoDetail)
        ELSE Out([r.s EXCEPT !.w = del2.w], 204, "ok", NoDetail)

reorder_slices(r, pie_id, ids) ==
    LET res == SliceService_reorder(r.s.w, pie_id, r.id, ids)
    IN  IF ~res.success THEN Out(r.s, 404, "not_found", NoDetail)
        ELSE Out([r.s EXCEPT !.w = res.w], 204, "ok", NoDetail)

(***************************************************************************)
(* Requests and responses in flight.  A client issues a request, the       *)
(* endpoint handles it in one step on a session of its own (the handler    *)
(* runs alone), and the client takes the response.                         *)
(***************************************************************************)
BaseReq(op, user) ==
    [op |-> op, user |-> user, portfolio_id |-> None, pie_id |-> NoId,
     slice_id |-> NoId, name |-> None, symbol |-> None, pct |-> None,
     is_active |-> None, ids |-> <<>>, include_inactive |-> FALSE]

NoReq == BaseReq("none", NoId)

NoResp == [req |-> NoReq, status |-> 0, reason |-> "none", detail |-> NoDetail,
           scope |-> NoId, rows |-> {}]

Idle == req = NoReq /\ resp = NoResp

Issue(rq) ==
    /\ Idle
    /\ req' = rq
    /\ UNCHANGED <<store, resp, sess, calls>>

Consume ==
    /\ resp # NoResp
    /\ resp' = NoResp
    /\ UNCHANGED <<store, req, sess, calls>>

\* the response leaves after get_session has committed or rolled back; rows is
\* the list of entities in its body
ReplyRows(out, scope, rows) ==
    LET fin == GetSession(out).c
    IN  /\ portfolios' = fin.portfolios
        /\ pies' = fin.pies
        /\ slices' = fin.slices
        /\ nextId' = fin.nextId
        /\ resp' = [req |-> req, status |-> out.status, reason |-> out.reason,
                    detail |-> out.detail, scope |-> scope, rows |-> rows]
        /\ req' = NoReq
        /\ UNCHANGED <<sess, calls>>

Reply(out, scope) == ReplyRows(out, scope, {})

HandleCreatePie ==
    /\ req.op = "create_pie"
    /\ \E r \in resolve_portfolio(NewSession(Db), req.user, req.portfolio_id) :
           Reply(create_pie(r, [name |-> Val(req.name),
                                    target_allocation |-> Val(req.pct)]), r.id)

HandleUpdatePie ==
    /\ req.op = "update_pie"
    /\ \E r \in resolve_portfolio(NewSession(Db), req.user, req.portfolio_id) :
           Reply(update_pie(r, req.pie_id,
                            [name |-> req.name, target_allocation |-> req.pct,
                             is_active |-> req.is_active]), r.id)

HandleDeletePie ==
    /\ req.op = "delete_pie"
    /\ \E r \in resolve_portfolio(NewSession(Db), req.user, None) :
           Reply(delete_pie(r, req.pie_id), r.id)

HandleReorderPies ==
    /\ req.op = "reorder_pies"
    /\ \E r \in resolve_portfolio(NewSession(Db), req.user, None) :
           Reply(reorder_pies(r, req.ids), r.id)

HandleCreateSlice ==
    /\ req.op = "create_slice"
    /\ \E r \in get_user_default_portfolio(NewSession(Db), req.user) :
           Reply(create_slice(r, req.pie_id,
                              [symbol |-> Val(req.symbol), name |-> Val(req.name),
                               target_weight |-> Val(req.pct)]), req.pie_id)

HandleUpdateSlice ==
    /\ req.op = "update_slice"
    /\ \E r \in get_user_default_portfolio(NewSession(Db), req.user) :
           Reply(update_slice(r, req.pie_id, req.slice_id,
                              [symbol |-> req.symbol, name |-> req.name,
                               target_weight |-> req.pct,
                               is_active |-> req.is_active]),
                 req.pie_id)

HandleDeleteSlice ==
    /\ req.op = "delete_slice"
    /\ \E r \in get_user_default_portfolio(NewSession(Db), req.user) :
           Reply(delete_slice(r, req.user, req.pie_id, req.slice_id), req.pie_id)

HandleReorderSlices ==
    /\ req.op = "reorder_slices"
    /\ \E r \in get_user_default_portfolio(NewSession(Db), req.user) :
           Reply(reorder_slices(r, req.pie_id, req.ids), req.pie_id)

HandleGetPies ==
    /\ req.op = "get_pies"
    /\ \E r \in resolve_portfolio(NewSession(Db), req.user, req.portfolio_id) :
           LET res == get_pies(r, req.include_inactive)
           IN  ReplyRows(res.out, r.id, res.rows)

HandleGetPie ==
    /\ req.op = "get_pie"
    /\ \E r \in resolve_portfolio(NewSession(Db), req.user, None) :
           LET res == get_pie(r, req.pie_id)
           IN  ReplyRows(res.out, r.id, res.rows)

HandleGetSlices ==
    /\ req.op = "get_slices"
    /\ \E r \in get_user_default_portfolio(NewSession(Db), req.user) :
           LET res == get_slices(r, req.pie_id, req.include_inactive)
           IN  ReplyRows(res.out, req.pie_id, res.rows)

HandleGetSlice ==
    /\ req.op = "get_slice"
    /\ \E r \in get_user_default_portfolio(NewSession(Db), req.user) :
           LET res == get_slice(r, req.pie_id, req.slice_id)
           IN  ReplyRows(res.out, req.pie_id, res.rows)

HandleCreatePortfolio ==
    /\ req.op = "create_portfolio"
    /\ LET res == portfolios_create_portfolio(NewSession(Db), req.user, Val(req.name))
       IN  Reply(res.out, res.id)

HandleUpdatePortfolio ==
    /\ req.op = "update_portfolio"
    /\ LET s == NewSession(Db)
           id == Val(req.portfolio_id)
       IN  \E out \in DriverOutcomes(s, portfolios_update_portfolio(s, req.user, id, req.name)) :
               Reply(out, id)

HandleDeletePortfolio ==
    /\ req.op = "delete_portfolio"
    /\ LET s == NewSession(Db)
           id == Val(req.portfolio_id)
       IN  \E out \in DriverOutcomes(s, portfolios_delete_portfolio(s, req.user, id)) :
               Reply(out, id)

\* Request sessions that run side by side: each slot is one request with its
\* own AsyncSession; ins holds the rows it has flushed but not committed.
Slots == {1, 2}

NoRows == [pies |-> {}, slices |-> {}]

\* a status call: where it stands, what the gateway did, what was returned
NoCall == [pc |-> "idle"]

IdleSlot == [pc |-> "idle", req |-> NoReq, scope |-> NoId, ins |-> NoRows,
             status |-> 0, overlapped |-> FALSE]

Init ==
    /\ portfolios = {}
    /\ pies = {}
    /\ slices = {}
    /\ nextId = [portfolio |-> 1, pie |-> 1, slice |-> 1]
    /\ req = NoReq
    /\ resp = NoResp
    /\ sess = [i \in Slots |-> IdleSlot]
    /\ calls = [i \in Slots |-> NoCall]

MintedPieIds == {PieId(n) : n \in 1..(nextId.pie - 1)}

MintedSliceIds == {SliceId(n) : n \in 1..(nextId.slice - 1)}

\* pie and slice rows inserted so far
MintedRows == (nextId.pie - 1) + (nextId.slice - 1)

(***************************************************************************)
(* SpecAlloc: one user creating, updating and deleting pies and slices     *)
(***************************************************************************)
AllocPcts == {50, 60}

AllocSymbols == {"aapl", "MSFT"}

AllocRequests ==
    (IF MintedRows < AllocMaxRows
     THEN {[BaseReq("create_pie", U1) EXCEPT !.name = Some("n"), !.pct = Some(v)] :
              v \in AllocPcts}
     ELSE {})
    \cup {[BaseReq("update_pie", U1) EXCEPT !.pie_id = id, !.pct = v, !.is_active = a] :
              id \in MintedPieIds, v \in Opt(AllocPcts), a \in Opt(BOOLEAN)}
    \cup {[BaseReq("delete_pie", U1) EXCEPT !.pie_id = id] : id \in MintedPieIds}
    \cup (IF MintedRows < AllocMaxRows
          THEN {[BaseReq("create_slice", U1) EXCEPT !.pie_id = id, !.name = Some("n"),
                                                     !.symbol = Some(sy), !.pct = Some(v)] :
                   id \in MintedPieIds, sy \in AllocSymbols, v \in AllocPcts}
          ELSE {})
    \cup {[BaseReq("update_slice", U1) EXCEPT !.pie_id = id, !.slice_id = sid,
                                               !.symbol = sy, !.pct = v, !.is_active = a] :
              id \in MintedPieIds, sid \in MintedSliceIds,
              sy \in Opt(AllocSymbols), v \in Opt(AllocPcts), a \in Opt(BOOLEAN)}
    \cup {[BaseReq("delete_slice", U1) EXCEPT !.pie_id = id, !.slice_id = sid] :
              id \in MintedPieIds, sid \in MintedSliceIds}

NextAlloc ==
    \/ Idle /\ \E rq \in AllocRequests : Issue(rq)
    \/ HandleCreatePie
    \/ HandleUpdatePie
    \/ HandleDeletePie
    \/ HandleCreateSlice
    \/ HandleUpdateSlice
    \/ HandleDeleteSlice
    \/ Consume

SpecAlloc == Init /\ [][NextAlloc]_vars

(***************************************************************************)
(* SpecOrder: two users creating pies and slices; the first reorders with  *)
(* arbitrary id lists (repeated ids, ids of other scopes, ids of no row)   *)
(***************************************************************************)
\* the client names each new slice after a ticker it has not used yet
FreshSymbol ==
    LET OrderSymbols == <<"AAPL", "MSFT", "GOOG", "AMZN", "TSLA", "NVDA">>
    IN  OrderSymbols[((nextId.slice - 1) % Len(OrderSymbols)) + 1]

IdLists(S) == UNION {[1..k -> S] : k \in 1..MaxReorderLen}

OrderRequests ==
    (IF MintedRows < OrderMaxRows
     THEN {[BaseReq("create_pie", u) EXCEPT !.name = Some("n"), !.pct = Some(0)] :
              u \in Users}
          \cup {[BaseReq("create_slice", u) EXCEPT !.pie_id = id, !.name = Some("n"),
                                                    !.symbol = Some(FreshSymbol),
                                                    !.pct = Some(10)] :
                   u \in Users, id \in MintedPieIds}
     ELSE {})
    \cup {[BaseReq("reorder_pies", U1) EXCEPT !.ids = l] :
              l \in IdLists(MintedPieIds \cup {NoId})}
    \cup {[BaseReq("reorder_slices", U1) EXCEPT !.pie_id = id, !.ids = l] :
              id \in MintedPieIds \cup {NoId},
              l \in IdLists(MintedSliceIds \cup {NoId})}

NextOrder ==
    \/ Idle /\ \E rq \in OrderRequests : Issue(rq)
    \/ HandleCreatePie
    \/ HandleCreateSlice
    \/ HandleReorderPies
    \/ HandleReorderSlices
    \/ Consume

SpecOrder == Init /\ [][NextOrder]_vars

(***************************************************************************)
(* SpecConc: two create requests of one user running side by side, one     *)
(* step per database statement.  The production engine is PostgreSQL       *)
(* through asyncpg at its default isolation READ COMMITTED: a statement    *)
(* sees every committed row plus the rows its own session has flushed.     *)
(***************************************************************************)
ConcMaxRows == 3

ConcPcts == {40, 60}

InFlight(i) == sess[i].pc \notin {"idle", "done"}

\* what a statement of slot i reads
View(i) ==
    [portfolios |-> portfolios,
     pies |-> pies \cup sess[i].ins.pies,
     slices |-> slices \cup sess[i].ins.slices,
     nextId |-> nextId]

ConcRequests ==
    {[BaseReq("create_pie", U1) EXCEPT !.pct = Some(a)] : a \in ConcPcts}
    \cup {[BaseReq("create_slice", U1) EXCEPT !.pie_id = pid, !.symbol = Some(sym),
                                              !.pct = Some(a)] :
             pid \in MintedPieIds, sym \in {"AAPL", "MSFT"}, a \in ConcPcts}

\* the first statement after the portfolio is known
AfterResolve(rq) == IF rq.op = "create_slice" THEN "verify" ELSE "guard"

Finish(i, status) ==
    sess' = [sess EXCEPT ![i].pc = "done", ![i].status = status, ![i].ins = NoRows]

\* a request arrives and get_session opens its session
ConcBegin(i) ==
    /\ sess[i].pc = "idle"
    /\ MintedRows + Cardinality({j \in Slots : InFlight(j)}) < ConcMaxRows
    /\ \E rq \in ConcRequests :
           sess' = [j \in Slots |->
                      IF j = i
                      THEN [IdleSlot EXCEPT !.pc = "lookup", !.req = rq,
                                            !.overlapped = \E k \in Slots : InFlight(k)]
                      ELSE IF InFlight(j) THEN [sess[j] EXCEPT !.overlapped = TRUE]
                      ELSE sess[j]]
    /\ UNCHANGED <<store, req, resp, calls>>

\* _get_user_default_portfolio: get_user_portfolios and the search for the
\* row named "Default Portfolio"
ConcLookup(i) ==
    /\ sess[i].pc = "lookup"
    /\ LET defaults == {p \in get_user_portfolios(View(i), sess[i].req.user) :
                           p.name = DefaultName}
       IN  IF defaults = {}
           THEN sess' = [sess EXCEPT ![i].pc = "mkdefault"]
           ELSE \E p \in defaults :
                    sess' = [sess EXCEPT ![i].pc = AfterResolve(sess[i].req),
                                         ![i].scope = p.id]
    /\ UNCHANGED <<store, req, resp, calls>>

\* _get_user_default_portfolio: create_portfolio, which commits
ConcCreateDefault(i) ==
    /\ sess[i].pc = "mkdefault"
    /\ LET r == create_portfolio(NewSession(View(i)), sess[i].req.user, DefaultName)
       IN  /\ portfolios' = r.s.c.portfolios
           /\ nextId' = r.s.c.nextId
           /\ sess' = [sess EXCEPT ![i].pc = AfterResolve(sess[i].req),
                                   ![i].scope = r.id]
    /\ UNCHANGED <<pies, slices, req, resp, calls>>

\* SliceService.create: _verify_pie_ownership
ConcVerify(i) ==
    /\ sess[i].pc = "verify"
    /\ IF SliceService_verify_pie_ownership(View(i), sess[i].req.pie_id, sess[i].scope)
       THEN sess' = [sess EXCEPT ![i].pc = "guard"]
       ELSE Finish(i, 404)
    /\ UNCHANGED <<store, req, resp, calls>>

\* the SELECT of the current total and the comparison with 100
ConcGuard(i) ==
    /\ sess[i].pc = "guard"
    /\ LET rq == sess[i].req
           current_total ==
               IF rq.op = "create_pie"
               THEN PieService_get_total_allocation(View(i), sess[i].scope)
               ELSE SliceService_get_total_weight(View(i), rq.pie_id)
       IN  IF current_total + Val(rq.pct) > 100
           THEN Finish(i, 400)
           ELSE sess' = [sess EXCEPT ![i].pc = "write"]
    /\ UNCHANGED <<store, req, resp, calls>>

\* the INSERT of another session that has not committed yet holds the
\* (pie_id, symbol) key: the flush of row waits for that session to end
UqSlicePieSymbolBlocked(i, row) ==
    \E j \in Slots \ {i} :
        /\ sess[j].pc = "commit"
        /\ \E sl \in sess[j].ins.slices : sl.pie_id = row.pie_id /\ sl.symbol = row.symbol

\* the max_order query, db.add and flush
ConcWrite(i) ==
    /\ sess[i].pc = "write"
    /\ LET rq == sess[i].req
       IN  IF rq.op = "create_pie"
           THEN LET w2 == PieService_create(View(i), sess[i].scope, rq.name, Val(rq.pct))
                IN  /\ sess' = [sess EXCEPT ![i].pc = "commit",
                                            ![i].ins.pies = w2.pies \ pies]
                    /\ nextId' = w2.nextId
           ELSE LET row == SliceService_create_row(View(i), rq.pie_id,
                               uppercase_symbol(Val(rq.symbol)), Val(rq.pct), rq.name)
                IN  /\ ~UqSlicePieSymbolBlocked(i, row)
                    /\ IF UqSlicePieSymbolViolated(View(i), row)
                       THEN Finish(i, 500) /\ nextId' = nextId
                       ELSE /\ sess' = [sess EXCEPT ![i].pc = "commit",
                                                    ![i].ins.slices = @ \cup {row}]
                            /\ nextId' = [nextId EXCEPT !.slice = @ + 1]
    /\ UNCHANGED <<portfolios, pies, slices, req, resp, calls>>

\* the handler returns and get_session commits
ConcCommit(i) ==
    /\ sess[i].pc = "commit"
    /\ pies' = pies \cup sess[i].ins.pies
    /\ slices' = slices \cup sess[i].ins.slices
    /\ sess' = [sess EXCEPT ![i].pc = "done", ![i].status = 201]
    /\ UNCHANGED <<portfolios, nextId, req, resp, calls>>

\* the response has been sent
ConcEnd(i) ==
    /\ sess[i].pc = "done"
    /\ sess' = [sess EXCEPT ![i] = IdleSlot]
    /\ UNCHANGED <<store, req, resp, calls>>

NextConc ==
    \E i \in Slots :
        \/ ConcBegin(i)
        \/ ConcLookup(i)
        \/ ConcCreateDefault(i)
        \/ ConcVerify(i)
        \/ ConcGuard(i)
        \/ ConcWrite(i)
        \/ ConcCommit(i)
        \/ ConcEnd(i)

SpecConc == Init /\ [][NextConc]_vars

(***************************************************************************)
(* SpecOwner: two users with portfolios of their own; pies are created,    *)
(* read, updated and deleted with and without an explicit portfolio_id.    *)
(***************************************************************************)
OwnerMaxRows == 3

OwnerNames == {DefaultName, "default portfolio", "Growth"}

MintedPortfolioIds == {PortfolioId(n) : n \in 1..(nextId.portfolio - 1)}

\* portfolio and pie rows inserted so far
OwnerRows == (nextId.portfolio - 1) + (nextId.pie - 1)

\* a request without portfolio_id creates the default portfolio when the
\* user has none
MayMintPortfolio(u) ==
    \/ OwnerRows < OwnerMaxRows
    \/ \E p \in portfolios : p.user_id = u /\ p.name = DefaultName

OwnerRequests ==
    {[BaseReq("create_portfolio", u) EXCEPT !.name = Some(n)] :
        u \in {v \in Users : OwnerRows < OwnerMaxRows}, n \in OwnerNames}
    \cup {[BaseReq("update_portfolio", u) EXCEPT !.portfolio_id = Some(pf), !.name = Some(n)] :
             u \in Users, pf \in MintedPortfolioIds, n \in OwnerNames}
    \cup {[BaseReq("delete_portfolio", u) EXCEPT !.portfolio_id = Some(pf)] :
             u \in Users, pf \in MintedPortfolioIds}
    \cup {[BaseReq("create_pie", u) EXCEPT !.portfolio_id = pf, !.name = Some("pie"),
                                           !.pct = Some(60)] :
             u \in {v \in Users : OwnerRows < OwnerMaxRows},
             pf \in Opt(MintedPortfolioIds)}
    \cup {[BaseReq("update_pie", u) EXCEPT !.portfolio_id = pf, !.pie_id = pid,
                                           !.pct = a, !.is_active = act] :
             u \in {v \in Users : MayMintPortfolio(v)}, pf \in Opt(MintedPortfolioIds),
             pid \in MintedPieIds, a \in Opt({40}), act \in Opt({FALSE})}
    \cup {[BaseReq("get_pies", u) EXCEPT !.portfolio_id = pf, !.include_inactive = inc] :
             u \in {v \in Users : MayMintPortfolio(v)}, pf \in Opt(MintedPortfolioIds),
             inc \in BOOLEAN}
    \cup {[BaseReq(op, u) EXCEPT !.pie_id = pid] :
             op \in {"get_pie", "delete_pie"}, u \in {v \in Users : MayMintPortfolio(v)},
             pid \in MintedPieIds}

NextOwner ==
    \/ Idle /\ \E rq \in OwnerRequests : Issue(rq)
    \/ HandleCreatePortfolio
    \/ HandleUpdatePortfolio
    \/ HandleDeletePortfolio
    \/ HandleCreatePie
    \/ HandleUpdatePie
    \/ HandleGetPies
    \/ HandleGetPie
    \/ HandleDeletePie
    \/ Consume

SpecOwner == Init /\ [][NextOwner]_vars

(***************************************************************************)
(* SpecChain: two users create pies and slices; the first user then calls  *)
(* every slice endpoint with any pie id and any slice id.                  *)
(***************************************************************************)
ChainMaxRows == 4

ChainRequests ==
    {[BaseReq("create_pie", u) EXCEPT !.name = Some("pie"), !.pct = Some(10)] :
        u \in {v \in Users : MintedRows < ChainMaxRows}}
    \cup {[BaseReq("create_slice", u) EXCEPT !.pie_id = pid, !.name = Some("slice"),
                                             !.symbol = Some(FreshSymbol), !.pct = Some(10)] :
             u \in {v \in Users : MintedRows < ChainMaxRows}, pid \in MintedPieIds}
    \cup {[BaseReq("get_slices", U1) EXCEPT !.pie_id = pid, !.include_inactive = inc] :
             pid \in MintedPieIds \cup {NoId}, inc \in BOOLEAN}
    \cup {[BaseReq(op, U1) EXCEPT !.pie_id = pid, !.slice_id = sid] :
             op \in {"get_slice", "delete_slice"}, pid \in MintedPieIds \cup {NoId},
             sid \in MintedSliceIds}
    \cup {[BaseReq("update_slice", U1) EXCEPT !.pie_id = pid, !.slice_id = sid,
                                              !.is_active = Some(FALSE)] :
             pid \in MintedPieIds \cup {NoId}, sid \in MintedSliceIds}
    \cup {[BaseReq("reorder_slices", U1) EXCEPT !.pie_id = pid, !.ids = <<sid>>] :
             pid \in MintedPieIds \cup {NoId}, sid \in MintedSliceIds}

NextChain ==
    \/ Idle /\ \E rq \in ChainRequests : Issue(rq)
    \/ HandleCreatePie
    \/ HandleCreateSlice
    \/ HandleGetSlices
    \/ HandleGetSlice
    \/ HandleUpdateSlice
    \/ HandleDeleteSlice
    \/ HandleReorderSlices
    \/ Consume

SpecChain == Init /\ [][NextChain]_vars

(***************************************************************************)
(* SpecActive: two users create pies and slices; the first user switches   *)
(* is_active off and on, lists with and without include_inactive, reads    *)
(* by id and deletes.                                                      *)
(***************************************************************************)
ActiveMaxRows == 3

ActiveRequests ==
    {[BaseReq("create_pie", u) EXCEPT !.name = Some("pie"), !.pct = Some(10)] :
        u \in {v \in Users : MintedRows < ActiveMaxRows}}
    \cup {[BaseReq("create_slice", u) EXCEPT !.pie_id = pid, !.name = Some("slice"),
                                             !.symbol = Some(FreshSymbol), !.pct = Some(10)] :
             u \in {v \in Users : MintedRows < ActiveMaxRows}, pid \in MintedPieIds}
    \cup {[BaseReq("update_pie", U1) EXCEPT !.pie_id = pid, !.name = n, !.is_active = a] :
             pid \in MintedPieIds, n \in Opt({"renamed"}), a \in Opt(BOOLEAN)}
    \cup {[BaseReq("update_slice", U1) EXCEPT !.pie_id = pid, !.slice_id = sid,
                                              !.name = n, !.is_active = a] :
             pid \in MintedPieIds, sid \in MintedSliceIds,
             n \in Opt({"renamed"}), a \in Opt(BOOLEAN)}
    \cup {[BaseReq("get_pies", U1) EXCEPT !.include_inactive = inc] : inc \in BOOLEAN}
    \cup {[BaseReq("get_slices", U1) EXCEPT !.pie_id = pid, !.include_inactive = inc] :
             pid \in MintedPieIds, inc \in BOOLEAN}
    \cup {[BaseReq(op, U1) EXCEPT !.pie_id = pid] :
             op \in {"get_pie", "delete_pie"}, pid \in MintedPieIds}
    \cup {[BaseReq(op, U1) EXCEPT !.pie_id = pid, !.slice_id = sid] :
             op \in {"get_slice", "delete_slice"}, pid \in MintedPieIds,
             sid \in MintedSliceIds}

NextActive ==
    \/ Idle /\ \E rq \in ActiveRequests : Issue(rq)
    \/ HandleCreatePie
    \/ HandleCreateSlice
    \/ HandleUpdatePie
    \/ HandleUpdateSlice
    \/ HandleGetPies
    \/ HandleGetPie
    \/ HandleGetSlices
    \/ HandleGetSlice
    \/ HandleDeletePie
    \/ HandleDeleteSlice
    \/ Consume

SpecActive == Init /\ [][NextActive]_vars

(***************************************************************************)
(* SpecDense: one user creates, deactivates, deletes and reorders pies     *)
(* and slices, reordering with complete and with defective lists.          *)
(***************************************************************************)
DenseMaxRows == 3

\* the reorder lists over the rows S of a scope: every permutation of S,
\* and every list of one or two ids (lists that omit rows or repeat an id)
DenseLists(S) ==
    {l \in [1..Cardinality(S) -> S] : Len(l) >= 1 /\ {l[k] : k \in DOMAIN l} = S}
    \cup [1..1 -> S] \cup [1..2 -> S]

DenseRequests ==
    (IF MintedRows < DenseMaxRows
     THEN {[BaseReq("create_pie", U1) EXCEPT !.name = Some("n"), !.pct = Some(0)]}
          \cup {[BaseReq("create_slice", U1) EXCEPT !.pie_id = id, !.name = Some("n"),
                                                     !.symbol = Some(FreshSymbol),
                                                     !.pct = Some(10)] :
                   id \in MintedPieIds}
     ELSE {})
    \cup {[BaseReq("update_pie", U1) EXCEPT !.pie_id = id, !.is_active = Some(FALSE)] :
              id \in MintedPieIds}
    \cup {[BaseReq("update_slice", U1) EXCEPT !.pie_id = id, !.slice_id = sid,
                                               !.is_active = Some(FALSE)] :
              id \in MintedPieIds, sid \in MintedSliceIds}
    \cup {[BaseReq("delete_pie", U1) EXCEPT !.pie_id = id] : id \in MintedPieIds}
    \cup {[BaseReq("delete_slice", U1) EXCEPT !.pie_id = id, !.slice_id = sid] :
              id \in MintedPieIds, sid \in MintedSliceIds}
    \cup {[BaseReq("reorder_pies", U1) EXCEPT !.ids = l] :
              l \in DenseLists({p.id : p \in pies})}
    \cup UNION {{[BaseReq("reorder_slices", U1) EXCEPT !.pie_id = id, !.ids = l] :
                     l \in DenseLists({sl.id : sl \in {x \in slices : x.pie_id = id}})} :
                 id \in {p.id : p \in pies}}

NextDense ==
    \/ Idle /\ \E rq \in DenseRequests : Issue(rq)
    \/ HandleCreatePie
    \/ HandleCreateSlice
    \/ HandleUpdatePie
    \/ HandleUpdateSlice
    \/ HandleDeletePie
    \/ HandleDeleteSlice
    \/ HandleReorderPies
    \/ HandleReorderSlices
    \/ Consume

SpecDense == Init /\ [][NextDense]_vars

(***************************************************************************)
(* SpecIsolation: the first user builds portfolios, pies and slices; the   *)
(* second user creates rows of their own and issues every pie, slice and   *)
(* portfolio request with every id in the store.                           *)
(***************************************************************************)
IsoMaxRows == 5

\* portfolio, pie and slice rows inserted so far
IsoRows == (nextId.portfolio - 1) + MintedRows

\* a request of user u may insert the default portfolio of u
IsoMayResolve(u) ==
    \/ IsoRows < IsoMaxRows
    \/ \E p \in portfolios : p.user_id = u /\ p.name = DefaultName

\* a request of user u may insert a row besides the default portfolio
IsoMayCreate(u) ==
    \/ IsoRows + 1 < IsoMaxRows
    \/ IsoRows < IsoMaxRows /\ \E p \in portfolios : p.user_id = u /\ p.name = DefaultName

IsoRequests ==
    {[BaseReq("create_pie", u) EXCEPT !.name = Some("pie"), !.pct = Some(10)] :
        u \in {v \in Users : IsoMayCreate(v)}}
    \cup {[BaseReq("create_slice", u) EXCEPT !.pie_id = pid, !.name = Some("slice"),
                                             !.symbol = Some(FreshSymbol), !.pct = Some(10)] :
             u \in {v \in Users : IsoMayCreate(v)}, pid \in MintedPieIds}
    \cup {[BaseReq("create_pie", U2) EXCEPT !.portfolio_id = Some(pf), !.name = Some("pie"),
                                            !.pct = Some(10)] :
             pf \in {q \in MintedPortfolioIds : IsoRows < IsoMaxRows}}
    \cup {[BaseReq("update_pie", U2) EXCEPT !.portfolio_id = pf, !.pie_id = pid,
                                            !.pct = Some(20), !.is_active = Some(FALSE)] :
             pf \in {q \in Opt(MintedPortfolioIds) : IsoMayResolve(U2)}, pid \in MintedPieIds}
    \cup {[BaseReq("delete_pie", U2) EXCEPT !.pie_id = pid] :
             pid \in {q \in MintedPieIds : IsoMayResolve(U2)}}
    \cup {[BaseReq("reorder_pies", U2) EXCEPT !.ids = <<pid>>] :
             pid \in {q \in MintedPieIds : IsoMayResolve(U2)}}
    \cup {[BaseReq("update_slice", U2) EXCEPT !.pie_id = pid, !.slice_id = sid,
                                              !.pct = Some(20), !.is_active = Some(FALSE)] :
             pid \in {q \in MintedPieIds : IsoMayResolve(U2)}, sid \in MintedSliceIds}
    \cup {[BaseReq(op, U2) EXCEPT !.pie_id = pid, !.slice_id = sid] :
             op \in {"delete_slice"}, pid \in {q \in MintedPieIds : IsoMayResolve(U2)},
             sid \in MintedSliceIds}
    \cup {[BaseReq("reorder_slices", U2) EXCEPT !.pie_id = pid, !.ids = <<sid>>] :
             pid \in {q \in MintedPieIds : IsoMayResolve(U2)}, sid \in MintedSliceIds}
    \cup {[BaseReq("update_portfolio", U2) EXCEPT !.portfolio_id = Some(pf),
                                                  !.name = Some("Growth")] :
             pf \in MintedPortfolioIds}
    \cup {[BaseReq("delete_portfolio", U2) EXCEPT !.portfolio_id = Some(pf)] :
             pf \in MintedPortfolioIds}

NextIsolation ==
    \/ Idle /\ \E rq \in IsoRequests : Issue(rq)
    \/ HandleCreatePie
    \/ HandleCreateSlice
    \/ HandleUpdatePie
    \/ HandleDeletePie
    \/ HandleReorderPies
    \/ HandleUpdateSlice
    \/ HandleDeleteSlice
    \/ HandleReorderSlices
    \/ HandleUpdatePortfolio
    \/ HandleDeletePortfolio
    \/ Consume

SpecIsolation == Init /\ [][NextIsolation]_vars

(***************************************************************************)
(* SpecScope: one user with a second portfolio "Growth", created through   *)
(* POST /portfolios or by renaming the default portfolio; pies are created *)
(* with and without portfolio_id, and every pie and slice endpoint without *)
(* a portfolio_id parameter is called with every pie id.                   *)
(***************************************************************************)
ScopeMaxRows == 4

ScopeRequests ==
    LET rows == (nextId.portfolio - 1) + MintedRows
        has_default == \E p \in portfolios : p.user_id = U1 /\ p.name = DefaultName
        \* the request may insert the default portfolio / one more row
        resolve == rows < ScopeMaxRows \/ has_default
        create == rows + 1 < ScopeMaxRows \/ (rows < ScopeMaxRows /\ has_default)
        Pids == {q \in MintedPieIds : resolve}
    IN  {[BaseReq("create_portfolio", U1) EXCEPT !.name = Some("Growth")] :
            x \in {y \in {1} : rows < ScopeMaxRows}}
        \cup {[BaseReq("update_portfolio", U1) EXCEPT !.portfolio_id = Some(pf),
                                                      !.name = Some("Growth")] :
                 pf \in MintedPortfolioIds}
        \cup {[BaseReq("create_pie", U1) EXCEPT !.portfolio_id = pf, !.name = Some("pie"),
                                                !.pct = Some(10)] :
                 pf \in {q \in Opt(MintedPortfolioIds) :
                            IF q = None THEN create ELSE rows < ScopeMaxRows}}
        \cup {[BaseReq("create_slice", U1) EXCEPT !.pie_id = pid, !.name = Some("slice"),
                                                  !.symbol = Some(FreshSymbol),
                                                  !.pct = Some(10)] :
                 pid \in {q \in MintedPieIds : create}}
        \cup {[BaseReq(op, U1) EXCEPT !.pie_id = pid] :
                 op \in {"get_pie", "delete_pie", "get_slices"}, pid \in Pids}
        \cup {[BaseReq("reorder_pies", U1) EXCEPT !.ids = l] :
                 l \in [1..1 -> Pids] \cup [1..2 -> Pids]}
        \cup {[BaseReq(op, U1) EXCEPT !.pie_id = pid, !.slice_id = sid] :
                 op \in {"get_slice", "delete_slice"}, pid \in Pids, sid \in MintedSliceIds}
        \cup {[BaseReq("update_slice", U1) EXCEPT !.pie_id = pid, !.slice_id = sid,
                                                  !.pct = Some(20)] :
                 pid \in Pids, sid \in MintedSliceIds}
        \cup {[BaseReq("reorder_slices", U1) EXCEPT !.pie_id = pid, !.ids = <<sid>>] :
                 pid \in Pids, sid \in MintedSliceIds}

NextScope ==
    \/ Idle /\ \E rq \in ScopeRequests : Issue(rq)
    \/ HandleCreatePortfolio
    \/ HandleUpdatePortfolio
    \/ HandleCreatePie
    \/ HandleCreateSlice
    \/ HandleGetPie
    \/ HandleDeletePie
    \/ HandleReorderPies
    \/ HandleGetSlices
    \/ HandleGetSlice
    \/ HandleUpdateSlice
    \/ HandleDeleteSlice
    \/ HandleReorderSlices
    \/ Consume

SpecScope == Init /\ [][NextScope]_vars

(***************************************************************************)
(* IBKR gateway status (api/ibkr.py, services/ibkr/client.py).  A reply    *)
(* of the gateway is either a transport exception raised by the HTTP       *)
(* client or a response with a status code and a body; JSON values are     *)
(* written as strings.                                                     *)
(***************************************************************************)
NoException == "none"

\* the bases of each exception class, the class itself included
Bases(cls) ==
    CASE cls = "ConnectError" ->
           {"ConnectError", "NetworkError", "TransportError", "RequestError",
            "HTTPError", "Exception"}
      [] cls = "ReadError" ->
           {"ReadError", "NetworkError", "TransportError", "RequestError",
            "HTTPError", "Exception"}
      [] cls \in {"ConnectTimeout", "ReadTimeout", "PoolTimeout"} ->
           {cls, "TimeoutException", "TransportError", "RequestError",
            "HTTPError", "Exception"}
      [] cls = "HTTPStatusError" -> {"HTTPStatusError", "HTTPError", "Exception"}
      [] cls \in {"JSONDecodeError", "ValidationError"} -> {cls, "ValueError", "Exception"}
      [] OTHER -> {cls, "Exception"}

NoBody == [json |-> FALSE, object |-> FALSE, authenticated |-> "absent"]

\* a body that is no JSON, a JSON list, or a JSON object whose member
\* "authenticated" is absent, true, false or null
GatewayBodies ==
    {NoBody, [NoBody EXCEPT !.json = TRUE]}
    \cup {[json |-> TRUE, object |-> TRUE, authenticated |-> a] :
             a \in {"absent", "true", "false", "null"}}

GatewayReplies ==
    {[raises |-> c, status_code |-> 0, body |-> NoBody] : c \in {"ConnectError", "ReadError", "ConnectTimeout", "ReadTimeout",
                   "PoolTimeout"}}
    \cup {[raises |-> NoException, status_code |-> sc, body |-> b] :
             sc \in {200, 401, 500}, b \in GatewayBodies}

\* IBKRClient.check_auth_status, which is IBKRClient._request: the client's
\* exception, else raise_for_status, else response.json()
IBKRClient_request(reply) ==
    IF reply.raises # NoException THEN reply
    ELSE IF reply.status_code \notin 200..299
    THEN [reply EXCEPT !.raises = "HTTPStatusError"]
    ELSE IF ~reply.body.json THEN [reply EXCEPT !.raises = "JSONDecodeError"]
    ELSE reply

\* the except clauses of get_ibkr_status with HTTPError first
ExceptClauses_HTTPErrorFirst ==
    <<[catches |-> {"HTTPError"}, connected |-> TRUE, message |-> "http_error"],
      [catches |-> {"ConnectError"}, connected |-> FALSE, message |-> "cannot_connect"],
      [catches |-> {"TimeoutException", "ConnectTimeout", "ReadTimeout"},
       connected |-> FALSE, message |-> "timed_out"],
      [catches |-> {"HTTPStatusError"}, connected |-> TRUE, message |-> "error_status"],
      [catches |-> {"Exception"}, connected |-> FALSE, message |-> "error"]>>

\* the except clauses of get_ibkr_status in their order; each returns
\* authenticated = False
ExceptClauses ==
    <<[catches |-> {"ConnectError"}, connected |-> FALSE, message |-> "cannot_connect"],
      [catches |-> {"TimeoutException", "ConnectTimeout", "ReadTimeout"},
       connected |-> FALSE, message |-> "timed_out"],
      [catches |-> {"HTTPStatusError"}, connected |-> TRUE, message |-> "error_status"],
      [catches |-> {"HTTPError"}, connected |-> TRUE, message |-> "http_error"],
      [catches |-> {"Exception"}, connected |-> FALSE, message |-> "error"]>>

\* the index of the first clause that catches cls, 0 if none does
FirstClause(cls) ==
    LET hits == {k \in 1..Len(ExceptClauses) : ExceptClauses[k].catches \cap Bases(cls) # {}}
    IN  IF hits = {} THEN 0 ELSE CHOOSE k \in hits : \A j \in hits : k <= j

\* the exception raised inside the try block, NoException if it returns:
\* status_response.get on a body that is no dict, and the validation of
\* authenticated: bool in IBKRStatusResponse
TryRaises(reply) ==
    LET status_response == IBKRClient_request(reply)
    IN  IF status_response.raises # NoException THEN status_response.raises
        ELSE IF ~status_response.body.object THEN "AttributeError"
        ELSE IF status_response.body.authenticated = "null" THEN "ValidationError"
        ELSE NoException

get_ibkr_status(reply) ==
    LET status_response == IBKRClient_request(reply)
        authenticated == status_response.body.authenticated = "true"
        exc == TryRaises(reply)
        k == FirstClause(exc)
    IN  IF exc = NoException
        THEN [propagated |-> FALSE, authenticated |-> authenticated, connected |-> TRUE,
              message |-> IF authenticated THEN "connected" ELSE "not_authenticated"]
        ELSE IF k = 0
        THEN [propagated |-> TRUE, authenticated |-> FALSE, connected |-> FALSE,
              message |-> exc]
        ELSE [propagated |-> FALSE, authenticated |-> FALSE,
              connected |-> ExceptClauses[k].connected,
              message |-> ExceptClauses[k].message]

(***************************************************************************)
(* SpecStatus: two clients poll GET /ibkr/status; each call awaits the     *)
(* gateway once and then returns.                                          *)
(***************************************************************************)
StatusBegin(i) ==
    /\ calls[i].pc = "idle"
    /\ calls' = [calls EXCEPT ![i] = [pc |-> "awaiting"]]
    /\ UNCHANGED <<store, req, resp, sess>>

StatusGateway(i) ==
    /\ calls[i].pc = "awaiting"
    /\ \E reply \in GatewayReplies :
           calls' = [calls EXCEPT ![i] = [pc |-> "replied", reply |-> reply]]
    /\ UNCHANGED <<store, req, resp, sess>>

StatusReturn(i) ==
    /\ calls[i].pc = "replied"
    /\ calls' = [calls EXCEPT ![i] = [pc |-> "returned", reply |-> calls[i].reply,
                                      status |-> get_ibkr_status(calls[i].reply)]]
    /\ UNCHANGED <<store, req, resp, sess>>

StatusEnd(i) ==
    /\ calls[i].pc = "returned"
    /\ calls' = [calls EXCEPT ![i] = NoCall]
    /\ UNCHANGED <<store, req, resp, sess>>

NextStatus ==
    \E i \in Slots :
        \/ StatusBegin(i)
        \/ StatusGateway(i)
        \/ StatusReturn(i)
        \/ StatusEnd(i)

SpecStatus == Init /\ [][NextStatus]_vars

(***************************************************************************)
(* Vocabulary of the properties                                            *)
(***************************************************************************)
HandleStep == req # NoReq /\ resp' # NoResp

UserDefaultIds(P, u) == {pf.id : pf \in {q \in P : q.user_id = u /\ q.name = DefaultName}}

\* the pies a request of user u without portfolio_id is scoped to
PieSiblings(u) == {p \in pies : p.portfolio_id \in UserDefaultIds(portfolios, u)}

SliceSiblings(pie_id) == {sl \in slices : sl.pie_id = pie_id}

PieOwned(pie_id, u) ==
    \E p \in pies : p.id = pie_id /\ p.portfolio_id \in UserDefaultIds(portfolios, u)

Active(S) == {x \in S : x.is_active}

C2_ActiveSliceTotalAtMost100 ==
    \A p \in pies : SumOf(Active(SliceSiblings(p.id)), "target_weight") <= 100

\* C3: a create or update rejected by the allocation guard leaves every pie
\* and slice row as it was, the other fields of the same update included.
C3_RejectedWriteIsNoOp ==
    [][(HandleStep /\ resp'.reason = "allocation")
          => (pies' = pies /\ slices' = slices)]_vars

C3_Witness ==
    /\ resp.reason = "allocation"
    /\ resp.req.op = "update_pie"
    /\ resp.req.is_active = Some(FALSE)
    /\ \E p \in pies : p.id = resp.req.pie_id /\ p.is_active

\* the guard's inputs as the claims state them, read from the state before
\* the handler runs
CreatePieProjected == Val(req.pct) + SumOf(Active(PieSiblings(req.user)), "target_allocation")

CreateSliceProjected == Val(req.pct) + SumOf(Active(SliceSiblings(req.pie_id)), "target_weight")

SymbolTaken == \E sl \in SliceSiblings(req.pie_id) : sl.symbol = Upper(Val(req.symbol))

HasInactive(S) == \E x \in S : ~x.is_active

\* C5 as stated: once a sibling has been deactivated, a create in the same
\* scope succeeds exactly when its value plus the total of the remaining
\* active siblings is at most 100.
C5_CreateAfterDeactivation ==
    [][/\ (HandleStep /\ req.op = "create_pie" /\ HasInactive(PieSiblings(req.user)))
            => (resp'.status = 201 <=> CreatePieProjected <= 100)
       /\ (HandleStep /\ req.op = "create_slice" /\ PieOwned(req.pie_id, req.user)
              /\ HasInactive(SliceSiblings(req.pie_id)))
            => (resp'.status = 201 <=> CreateSliceProjected <= 100)]_vars

\* C5 amended: ... exactly when that total is at most 100 and, for a slice,
\* no slice of the pie (active or inactive) already has its symbol; and in a
\* pie holding only active AAPL at 60, creating MSFT at 50 is rejected.
C5_CreateAfterDeactivationFreshSymbol ==
    [][/\ (HandleStep /\ req.op = "create_pie" /\ HasInactive(PieSiblings(req.user)))
            => (resp'.status = 201 <=> CreatePieProjected <= 100)
       /\ (HandleStep /\ req.op = "create_slice" /\ PieOwned(req.pie_id, req.user)
              /\ HasInactive(SliceSiblings(req.pie_id)))
            => (resp'.status = 201 <=> (CreateSliceProjected <= 100 /\ ~SymbolTaken))
       /\ (HandleStep /\ req.op = "create_slice" /\ PieOwned(req.pie_id, req.user)
              /\ req.symbol = Some("MSFT") /\ req.pct = Some(50)
              /\ \E sl \in slices : /\ SliceSiblings(req.pie_id) = {sl}
                                    /\ sl.symbol = "AAPL" /\ sl.is_active
                                    /\ sl.target_weight = 60)
            => (resp'.status = 400 /\ slices' = slices)]_vars

\* MSFT at 50 has just been created next to the deactivated AAPL at 60
C5_Witness ==
    /\ resp.req.op = "create_slice"
    /\ resp.status = 201
    /\ resp.req.symbol = Some("MSFT")
    /\ resp.req.pct = Some(50)
    /\ \E sl \in slices : /\ sl.pie_id = resp.req.pie_id
                          /\ sl.symbol = "AAPL"
                          /\ sl.target_weight = 60
                          /\ ~sl.is_active

C7_RejectionCarriesAllThree ==
    resp.reason = "allocation"
        => /\ resp.status = 400
           /\ resp.detail.current # None
           /\ resp.detail.attempted # None
           /\ resp.detail.total # None

DupFree(ids) == \A i, j \in DOMAIN ids : ids[i] = ids[j] => i = j

Occurs(ids, id) == \E i \in DOMAIN ids : ids[i] = id

Reordered(row, ids) ==
    IF Occurs(ids, row.id)
    THEN [row EXCEPT !.display_order = MaxOf({i \in DOMAIN ids : ids[i] = row.id}) - 1]
    ELSE row

\* C8: after a reorder with a duplicate-free list, every sibling of the scope
\* named in the list has its 0-based list index as display_order and every
\* other sibling of the scope keeps its display_order.
C8_ReorderAssignsIndex ==
    [][/\ (HandleStep /\ req.op = "reorder_pies" /\ DupFree(req.ids))
            => \A p \in PieSiblings(req.user) :
                   \E q \in pies' :
                       /\ q.id = p.id
                       /\ \A i \in DOMAIN req.ids : req.ids[i] = p.id => q.display_order = i - 1
                       /\ ~Occurs(req.ids, p.id) => q.display_order = p.display_order
       /\ (HandleStep /\ req.op = "reorder_slices" /\ DupFree(req.ids)
              /\ PieOwned(req.pie_id, req.user))
            => \A sl \in SliceSiblings(req.pie_id) :
                   \E q \in slices' :
                       /\ q.id = sl.id
                       /\ \A i \in DOMAIN req.ids : req.ids[i] = sl.id => q.display_order = i - 1
                       /\ ~Occurs(req.ids, sl.id) => q.display_order = sl.display_order]_vars

\* the list [c, a, b] has been applied to the three pies of one portfolio
C8_Witness ==
    /\ resp.req.op = "reorder_pies"
    /\ resp.status = 204
    /\ resp.req.ids = <<PieId(3), PieId(1), PieId(2)>>
    /\ \A n \in 1..3 : \E p \in pies : p.id = PieId(n) /\ p.portfolio_id = resp.scope

\* C9: a reorder whose list holds ids from outside the scope still succeeds,
\* gives the listed rows of the scope their list position, and leaves every
\* row outside the scope as it was.
C9_ForeignIdsIgnored ==
    [][/\ (HandleStep /\ req.op = "reorder_pies"
              /\ \E i \in DOMAIN req.ids : \A p \in PieSiblings(req.user) : p.id # req.ids[i])
            => /\ resp'.status = 204
               /\ \A p \in PieSiblings(req.user) : Reordered(p, req.ids) \in pies'
               /\ \A p \in pies \ PieSiblings(req.user) : p \in pies'
               /\ slices' = slices
       /\ (HandleStep /\ req.op = "reorder_slices" /\ PieOwned(req.pie_id, req.user)
              /\ \E i \in DOMAIN req.ids : \A sl \in SliceSiblings(req.pie_id) : sl.id # req.ids[i])
            => /\ resp'.status = 204
               /\ \A sl \in SliceSiblings(req.pie_id) : Reordered(sl, req.ids) \in slices'
               /\ \A sl \in slices \ SliceSiblings(req.pie_id) : sl \in slices'
               /\ pies' = pies]_vars

\* a list naming a pie of the scope and a pie of another portfolio was applied
C9_Witness ==
    /\ resp.req.op = "reorder_pies"
    /\ resp.status = 204
    /\ \E p, q \in pies :
           /\ p.portfolio_id = resp.scope /\ Occurs(resp.req.ids, p.id)
           /\ q.portfolio_id # resp.scope /\ Occurs(resp.req.ids, q.id)

\* C10: reorder_slices on a pie that is not in the caller's portfolio (or does
\* not exist) answers not-found and changes no slice; otherwise it answers
\* success with every listed slice of the pie at its list position.
C10_ReorderSlicesAllOrNothing ==
    [][(HandleStep /\ req.op = "reorder_slices")
          => /\ ~PieOwned(req.pie_id, req.user)
                  => (resp'.status = 404 /\ slices' = slices /\ pies' = pies)
             /\ PieOwned(req.pie_id, req.user)
                  => /\ resp'.status = 204
                     /\ \A sl \in SliceSiblings(req.pie_id) :
                            Reordered(sl, req.ids) \in slices']_vars

\* not-found for a pie of another user whose slice was named in the list
C10_Witness ==
    /\ resp.req.op = "reorder_slices"
    /\ resp.status = 404
    /\ \E sl \in slices : sl.pie_id = resp.req.pie_id /\ Occurs(resp.req.ids, sl.id)

\* the sibling scope of slot i's create and its rows
ConcScope(i) == IF sess[i].req.op = "create_pie" THEN sess[i].scope ELSE sess[i].req.pie_id

\* the row slot i has committed
ConcCreated(i) == IF sess[i].req.op = "create_pie" THEN sess[i].ins.pies ELSE sess[i].ins.slices

\* C4: two overlapping creates in one sibling scope have not both succeeded
\* when the existing active total plus both new values exceeds 100.
C4_ConcurrentCreatesNeverBothSucceed ==
    \A i, j \in Slots :
        ( /\ i # j
          /\ sess[i].pc = "done" /\ sess[j].pc = "done"
          /\ sess[i].overlapped /\ sess[j].overlapped
          /\ sess[i].status = 201 /\ sess[j].status = 201
          /\ sess[i].req.op = sess[j].req.op
          /\ ConcScope(i) = ConcScope(j) )
        => LET ConcScopeRows ==
                   IF sess[i].req.op = "create_pie"
                   THEN {p \in pies : p.portfolio_id = sess[i].scope}
                   ELSE {sl \in slices : sl.pie_id = sess[i].req.pie_id}
               ConcField == IF sess[i].req.op = "create_pie" THEN "target_allocation"
                            ELSE "target_weight"
           IN  SumOf(Active(ConcScopeRows \ (ConcCreated(i) \cup ConcCreated(j))),
                     ConcField)
                 + Val(sess[i].req.pct) + Val(sess[j].req.pct) <= 100

\* C11: under sequential requests a default-portfolio resolution for a user
\* without a portfolio named "Default Portfolio" inserts exactly one such row
\* and returns its id; a resolution for a user who has one returns the id of
\* that one row and inserts nothing.
C11_DefaultResolutionIdempotent ==
    [][(/\ HandleStep
        /\ \/ req.op \in {"create_pie", "update_pie", "get_pies"} /\ req.portfolio_id = None
           \/ req.op \in {"get_pie", "delete_pie", "reorder_pies"})
          => LET D == UserDefaultIds(portfolios, req.user)
             IN  /\ D # {} => (D = {resp'.scope} /\ portfolios' = portfolios)
                 /\ D = {} => /\ UserDefaultIds(portfolios', req.user) = {resp'.scope}
                              /\ portfolios \subseteq portfolios'
                              /\ Cardinality(portfolios' \ portfolios) = 1]_vars

\* a second resolution (get_pie) has returned the portfolio that the first
\* one (create_pie) created, and it is the only portfolio of the user
C11_Witness ==
    /\ resp.req.op = "get_pie"
    /\ resp.status = 200
    /\ resp.req.user = U1
    /\ {p.id : p \in {q \in portfolios : q.user_id = U1}} = {resp.scope}
    /\ UserDefaultIds(portfolios, U1) = {resp.scope}
    /\ \E p \in pies : p.id = resp.req.pie_id /\ p.portfolio_id = resp.scope

\* C12: in every reachable state, interleaved first-time requests of one user
\* included, each user owns at most one portfolio named "Default Portfolio".
C12_AtMostOneDefaultPerUser ==
    \A u \in Users : Cardinality(UserDefaultIds(portfolios, u)) <= 1

\* the request names a portfolio that is not among the caller's portfolios
ForeignPortfolio(rq) ==
    /\ rq.portfolio_id # None
    /\ \A p \in portfolios : p.user_id = rq.user => p.id # Val(rq.portfolio_id)

C14_CreatePieTargetsResolvedPortfolio ==
    [][(HandleStep /\ req.op = "create_pie" /\ resp'.status = 201)
          => \E row \in pies' :
                 /\ row \notin pies
                 /\ pies' = pies \cup {row}
                 /\ row.portfolio_id # NoId
                 /\ \E pf \in portfolios' : pf.id = row.portfolio_id /\ pf.user_id = req.user
                 /\ req.portfolio_id # None
                        => (row.portfolio_id = Val(req.portfolio_id) /\ portfolios' = portfolios)
                 /\ req.portfolio_id = None
                        => /\ row.portfolio_id \in UserDefaultIds(portfolios', req.user)
                           /\ UserDefaultIds(portfolios, req.user) # {}
                                  => portfolios' = portfolios]_vars

\* a pie was created in an owned portfolio that is not the default one
C14_Witness ==
    /\ resp.req.op = "create_pie"
    /\ resp.status = 201
    /\ resp.req.portfolio_id # None
    /\ \E pf \in portfolios : /\ pf.id = Val(resp.req.portfolio_id)
                              /\ pf.user_id = resp.req.user
                              /\ pf.name = "Growth"
    /\ \E p \in pies : p.portfolio_id = Val(resp.req.portfolio_id)

\* C15: get_pie, update_pie and delete_pie for a pie that exists in a
\* portfolio other than the one the request is scoped to answer 404 (not 403),
\* return nothing and leave every pie and slice unchanged; get_pies lists
\* only pies of the portfolio it is scoped to.
C15_PieOfOtherPortfolioNotFound ==
    [][/\ (HandleStep /\ req.op \in {"get_pie", "update_pie", "delete_pie"}
              /\ ~ForeignPortfolio(req)
              /\ \E p \in pies : p.id = req.pie_id /\ p.portfolio_id # resp'.scope)
            => /\ resp'.status = 404
               /\ resp'.rows = {}
               /\ pies' = pies /\ slices' = slices
       /\ (HandleStep /\ req.op = "get_pies")
            => \A p \in resp'.rows : p \in pies /\ p.portfolio_id = resp'.scope]_vars

\* an update that would deactivate a pie of the other user's portfolio was
\* answered 404 and the pie is still active
C15_Witness ==
    /\ resp.req.op = "update_pie"
    /\ resp.status = 404
    /\ resp.req.is_active = Some(FALSE)
    /\ \E p \in pies : /\ p.id = resp.req.pie_id
                       /\ p.portfolio_id # resp.scope
                       /\ p.is_active
                       /\ \E pf \in portfolios : pf.id = p.portfolio_id
                                                 /\ pf.user_id # resp.req.user

\* sl is reached through the pie of the request path and that pie lies in
\* the caller's resolved portfolio
ChainHolds(sl, rq) == sl.pie_id = rq.pie_id /\ PieOwned(rq.pie_id, rq.user)

\* C16: a slice endpoint returns and changes only slices whose pie is the pie
\* of the request path, that pie being in the caller's resolved portfolio;
\* when a link fails it answers 404 (the list: nothing) and changes no slice.
C16_SliceReachedThroughChainOnly ==
    [][(HandleStep /\ req.op \in {"get_slices", "get_slice", "create_slice",
                                  "update_slice", "delete_slice", "reorder_slices"})
          => /\ \A sl \in resp'.rows : sl \in slices /\ ChainHolds(sl, req)
             /\ \A sl \in slices : ~ChainHolds(sl, req) => sl \in slices'
             /\ \A sl \in slices' \ slices : ChainHolds(sl, req)
             /\ ~PieOwned(req.pie_id, req.user)
                    => /\ slices' = slices
                       /\ resp'.rows = {}
                       /\ resp'.status = IF req.op = "get_slices" THEN 200 ELSE 404
             /\ (req.op \in {"get_slice", "update_slice", "delete_slice"}
                    /\ \A sl \in slices : sl.id = req.slice_id => ~ChainHolds(sl, req))
                    => (slices' = slices /\ resp'.rows = {} /\ resp'.status = 404)]_vars

\* an update addressed a slice through another pie of the same caller: 404,
\* and the slice is still active
C16_Witness ==
    /\ resp.req.op = "update_slice"
    /\ resp.status = 404
    /\ PieOwned(resp.req.pie_id, resp.req.user)
    /\ \E sl \in slices : /\ sl.id = resp.req.slice_id
                          /\ sl.pie_id # resp.req.pie_id
                          /\ PieOwned(sl.pie_id, resp.req.user)
                          /\ sl.is_active

\* C17: after a successful delete_pie the pie and every slice of it are gone
\* and get_all_by_pie for its id is empty; after every step each stored slice
\* belongs to a stored pie.
C17_DeletePieCascades ==
    [][/\ (HandleStep /\ req.op = "delete_pie" /\ resp'.status = 204)
            => /\ \A p \in pies' : p.id # req.pie_id
               /\ \A sl \in slices' : sl.pie_id # req.pie_id
               /\ SliceService_get_all_by_pie(
                      [portfolios |-> portfolios', pies |-> pies', slices |-> slices',
                       nextId |-> nextId'], req.pie_id, resp'.scope, TRUE) = {}
       /\ \A sl \in slices' : \E p \in pies' : p.id = sl.pie_id]_vars

\* the only pie ever created has been deleted and the slice created in it
\* is no longer stored
C17_Witness ==
    /\ resp.req.op = "delete_pie"
    /\ resp.status = 204
    /\ nextId.pie = 2
    /\ nextId.slice > 1
    /\ pies = {}
    /\ slices = {}

\* C18: delete_slice for a stored slice, addressed through its own pie in the
\* caller's resolved portfolio, answers 204 and the slice is no longer stored.
C18_DeleteSliceRemovesRow ==
    [][(HandleStep /\ req.op = "delete_slice"
          /\ \E sl \in slices : sl.id = req.slice_id /\ ChainHolds(sl, req))
          => /\ resp'.status = 204
             /\ \A sl \in slices' : sl.id # req.slice_id]_vars

\* C19: every stored slice symbol is upper-case and no two slices of one pie,
\* active or not, have the same symbol.
C19_SymbolsUpperAndUniquePerPie ==
    /\ \A sl \in slices : Upper(sl.symbol) = sl.symbol
    /\ \A a, b \in slices : (a.pie_id = b.pie_id /\ a.symbol = b.symbol) => a.id = b.id

\* an update that supplied the symbol in lower case was stored in upper case
\* next to a sibling with another symbol
C19_Witness ==
    /\ resp.req.op = "update_slice"
    /\ resp.status = 200
    /\ resp.req.symbol = Some("aapl")
    /\ \E a, b \in slices : /\ a.id = resp.req.slice_id
                            /\ a.symbol = "AAPL"
                            /\ b.pie_id = a.pie_id
                            /\ b.symbol = "MSFT"

\* C20: a slice create or update whose symbol is already used by another
\* slice of the same pie is answered 400 and changes no slice.
C20_DuplicateSymbolIsValidationFailure ==
    [][/\ (HandleStep /\ req.op = "create_slice" /\ PieOwned(req.pie_id, req.user)
              /\ SymbolTaken)
            => (resp'.status = 400 /\ slices' = slices)
       /\ (HandleStep /\ req.op = "update_slice" /\ PieOwned(req.pie_id, req.user)
              /\ req.symbol # None
              /\ \E sl, other \in SliceSiblings(req.pie_id) :
                     /\ sl.id = req.slice_id
                     /\ other.id # sl.id
                     /\ other.symbol = Upper(Val(req.symbol)))
            => (resp'.status = 400 /\ slices' = slices)]_vars

\* C21: no user owns two portfolios whose names are equal ignoring letter
\* case, in every state reached by portfolio creates, renames and default
\* resolutions.
C21_NamesUniquePerOwnerIgnoringCase ==
    \A p \in portfolios : \A q \in portfolios :
        (p.user_id = q.user_id /\ Lower(p.name) = Lower(q.name)) => p.id = q.id

Returned == {i \in Slots : calls[i].pc = "returned"}

\* a response with a success status whose body is a JSON object with
\* "authenticated" true, false or absent
WellFormed(reply) ==
    /\ reply.raises = NoException /\ reply.status_code \in 200..299
    /\ reply.body.object /\ reply.body.authenticated # "null"

StatusIs(i, connected, authenticated) ==
    calls[i].status.connected = connected /\ calls[i].status.authenticated = authenticated

CreatedWithOrder(first) ==
    LET AppendOrder(orders, empty) == IF orders = {} THEN empty ELSE 1 + MaxOf(orders)
    IN
    /\ req.op = "create_pie" =>
          /\ pies' # pies
          /\ \A x \in pies' \ pies :
                x.display_order =
                    AppendOrder({p.display_order :
                                    p \in {q \in pies : q.portfolio_id = x.portfolio_id}},
                                first)
    /\ req.op = "create_slice" =>
          /\ slices' # slices
          /\ \A x \in slices' \ slices :
                x.display_order =
                    AppendOrder({sl.display_order : sl \in SliceSiblings(x.pie_id)}, first)

C26_UpdateChangesOnlySuppliedFields ==
    [][HandleStep =>
         /\ req.op = "update_pie" =>
               /\ slices' = slices
               /\ {y.id : y \in pies'} = {x.id : x \in pies}
               /\ \A x \in pies : \A y \in pies' : y.id = x.id =>
                     /\ y.portfolio_id = x.portfolio_id
                     /\ y.display_order = x.display_order
                     /\ x.id # req.pie_id => y = x
                     /\ \A f \in {"name", "is_active"} : req[f] = None => y[f] = x[f]
                     /\ req.pct = None => y.target_allocation = x.target_allocation
         /\ req.op = "update_slice" =>
               /\ pies' = pies
               /\ {y.id : y \in slices'} = {x.id : x \in slices}
               /\ \A x \in slices : \A y \in slices' : y.id = x.id =>
                     /\ y.pie_id = x.pie_id
                     /\ y.display_order = x.display_order
                     /\ x.id # req.slice_id => y = x
                     /\ \A f \in {"name", "is_active", "symbol"} :
                           req[f] = None => y[f] = x[f]
                     /\ req.pct = None => y.target_weight = x.target_weight
    ]_vars

\* an inactive pie was given a new percentage by a request without
\* is_active, and is still inactive
C26_Witness ==
    /\ resp.req.op = "update_pie" /\ resp.status = 200
    /\ resp.req.pct # None /\ resp.req.is_active = None
    /\ \E x \in pies : /\ x.id = resp.req.pie_id /\ ~x.is_active
                        /\ x.target_allocation = Val(resp.req.pct)

\* the portfolios of user u, the pies in them and the slices in those pies
OwnedPortfolios(u) == {p \in portfolios : p.user_id = u}

OwnedPies(u) == {p \in pies : p.portfolio_id \in {q.id : q \in OwnedPortfolios(u)}}

OwnedSlices(u) == {sl \in slices : sl.pie_id \in {p.id : p \in OwnedPies(u)}}

OwnedRows(u) == <<OwnedPortfolios(u), OwnedPies(u), OwnedSlices(u)>>

\* C27: a request of one user, whatever ids it carries, leaves the
\* portfolios, pies and slices of every other user and all their field
\* values as they were.
C27_CrossUserIsolation ==
    [][HandleStep => \A u \in Users \ {req.user} : OwnedRows(u)' = OwnedRows(u)]_vars

\* the second user addressed a slice of the first user through its own pie
\* id, was answered not-found, and the slice is stored as before
C27_Witness ==
    /\ resp.req.user = U2 /\ resp.req.op = "update_slice" /\ resp.status = 404
    /\ \E x \in OwnedSlices(U1) :
          /\ x.id = resp.req.slice_id /\ x.pie_id = resp.req.pie_id
          /\ x.is_active /\ x.target_weight = 10
    /\ OwnedPies(U2) # {}

\* no two rows of S have the same display_order
OrdersDistinct(S) == \A x \in S : \A y \in S : x.display_order = y.display_order => x = y

\* every portfolio's pies and every pie's slices have distinct orders
DisplayOrderUnique ==
    /\ \A pf \in portfolios : OrdersDistinct({p \in pies : p.portfolio_id = pf.id})
    /\ \A p \in pies : OrdersDistinct(SliceSiblings(p.id))

\* ids lists every row of S exactly once
PermutationOf(ids, S) == DupFree(ids) /\ {ids[k] : k \in DOMAIN ids} = {x.id : x \in S}

\* C28: a create, a delete, a deactivation, or a reorder whose list is a
\* duplicate-free permutation of all siblings of its scope (active and
\* inactive), applied to a store in which the siblings of every scope have
\* distinct display_order values, leaves such a store.
C28_PermutationKeepsOrdersUnique ==
    [][(/\ HandleStep
        /\ DisplayOrderUnique
        /\ req.op = "reorder_pies" => PermutationOf(req.ids, PieSiblings(req.user))
        /\ req.op = "reorder_slices" => PermutationOf(req.ids, SliceSiblings(req.pie_id)))
          => DisplayOrderUnique']_vars

\* the pies, one of them inactive, were reordered by a permutation and have
\* distinct orders, while a list that omitted a slice or repeated an id has
\* left two slices of a pie with the same order
C28_Witness ==
    /\ resp.req.op = "reorder_pies" /\ resp.status = 204
    /\ PermutationOf(resp.req.ids, PieSiblings(U1))
    /\ OrdersDistinct(PieSiblings(U1))
    /\ \E p \in PieSiblings(U1) : ~p.is_active
    /\ \E p \in PieSiblings(U1) : ~OrdersDistinct(SliceSiblings(p.id))

\* C29: delete_portfolio removes the portfolio only when the caller owns it
\* and it holds no pie; for a portfolio that does not exist or is owned by
\* someone else it answers 404, for a portfolio with a pie it answers 400,
\* and in both cases portfolios, pies and slices stay as they were.
C29_DeletePortfolioOutcomes ==
    [][(HandleStep /\ req.op = "delete_portfolio") =>
         LET id == Val(req.portfolio_id)
             owned == \E p \in portfolios : p.id = id /\ p.user_id = req.user
             has_pies == \E p \in pies : p.portfolio_id = id
         IN  /\ ~owned => resp'.status = 404
             /\ (owned /\ has_pies) => resp'.status = 400
             /\ (~owned \/ has_pies) =>
                    portfolios' = portfolios /\ pies' = pies /\ slices' = slices
             /\ portfolios' # portfolios => (owned /\ ~has_pies)
    ]_vars

\* C30: for a pie of the caller in a portfolio of the caller that is not
\* the default portfolio, get_pie, delete_pie and create_slice answer 404,
\* the other slice endpoints find nothing, and neither these nor
\* reorder_pies change the pie (its display_order included) or its slices.
C30_ScopedToDefaultPortfolio ==
    [][(/\ HandleStep
        /\ req.op \in {"get_pie", "delete_pie", "reorder_pies", "create_slice",
                        "get_slices", "get_slice", "update_slice", "delete_slice",
                        "reorder_slices"})
          => LET OutsideDefault ==
                     {p \in OwnedPies(req.user) :
                          p.portfolio_id \notin UserDefaultIds(portfolios, req.user)}
             IN  \A x \in OutsideDefault :
                    /\ x \in pies'
                    /\ SliceSiblings(x.id)' = SliceSiblings(x.id)
                    /\ req.pie_id = x.id =>
                          /\ req.op # "get_slices" => resp'.status = 404
                          /\ resp'.rows = {}
    ]_vars

\* delete_pie was answered 404 for a pie that is still stored in the
\* caller's second portfolio: that portfolio was inserted after the default
\* portfolio, so the pie was created there with an explicit portfolio_id
C30_Witness ==
    /\ resp.req.op = "delete_pie" /\ resp.status = 404
    /\ UserDefaultIds(portfolios, U1) = {PortfolioId(1)}
    /\ \E x \in OwnedPies(U1) :
          x.id = resp.req.pie_id /\ x.portfolio_id = PortfolioId(2)

====
